---- MODULE Spec2Model ----
(***************************************************************************)
(* gitcommit (src/main.go): a command-line assistant that sends the git    *)
(* diff and a draft message to a remote assistant and loops until the user *)
(* accepts a commit message.                                               *)
(*                                                                         *)
(* A Go string is modelled as the sequence of its characters, each a       *)
(* one-character TLA+ string; Chars turns a literal into that form.  The   *)
(* grave accent (U+0060) cannot be written inside a TLA+ string literal,   *)
(* so that one character is named by the token Backtick.                   *)
(***************************************************************************)
EXTENDS Integers, Sequences, FiniteSets, TLC

VARIABLES
    pc,               \* position of main
    help,             \* flag -help
    allChanges,       \* flag -a
    nargs,            \* len(flag.Args())
    environ,          \* the process environment (a partial map)
    apiKey,           \* main: apiKey
    originalMessage,  \* main: originalMessage
    diff,             \* main: diff
    diffErr,          \* main: err of getDiff
    prompt,           \* main: prompt
    httpResp,         \* askClaude: what client.Do and the decoder produced
    response,         \* loop: response
    askErr,           \* loop: err of askClaude
    commitMsg,        \* loop: commitMsg
    answer,           \* loop: answer
    editedStr,        \* editInVim: editedStr
    confirm,          \* editInVim: confirm
    edited,           \* loop: edited (first result of editInVim)
    editErr,          \* loop: err of editInVim
    finalMessage,     \* loop: finalMessage
    gitCalls,         \* every exec.Command("git", args...) run so far, in order
    requests,         \* every askClaude call that reached client.Do, in order
    shown,            \* the prompt text of the latest getUserInput call
    nPrompts          \* number of getUserInput calls so far

vars == <<pc, help, allChanges, nargs, environ, apiKey, originalMessage, diff,
          diffErr, prompt, httpResp, response, askErr, commitMsg, answer,
          editedStr, confirm, edited, editErr, finalMessage, gitCalls,
          requests, shown, nPrompts>>

(***************************************************************************)
(* Bounds of the model.                                                    *)
(***************************************************************************)
\* at most this many requests to the remote assistant in one run
MaxRequests == 3
\* longest response text enumerated for extractCommitMessage on its own
MaxLen == 9

\* http.StatusOK
StatusOK == 200

Nil == "nil"

\* httpResp before the first request
NoReply == [neterr |-> FALSE, status |-> 0, json |-> FALSE, content |-> <<>>]

(***************************************************************************)
(* Strings.                                                                *)
(***************************************************************************)
\* a string literal as a character sequence
Chars(str) == [i \in 1..Len(str) |-> SubSeq(str, i, i)]

\* the character U+0060
Backtick == "U+0060"

\* characters a TLA+ string literal has no escape for, named like Backtick:
\* the vertical tab \v, the next-line control, the no-break space
VT == "U+000B"
NEL == "U+0085"
NBSP == "U+00A0"

\* the other characters with the Unicode White_Space property
WideSpaces ==
    { "U+1680", "U+2000", "U+2001", "U+2002", "U+2003", "U+2004", "U+2005",
      "U+2006", "U+2007", "U+2008", "U+2009", "U+200A", "U+2028", "U+2029",
      "U+202F", "U+205F", "U+3000" }

\* unicode.IsSpace, the cut set of strings.TrimSpace: \t \n \v \f \r, space,
\* U+0085, U+00A0 and the rest of White_Space
IsSpace(c) ==
    c \in {"\t", "\n", VT, "\f", "\r", " ", NEL, NBSP} \cup WideSpaces

RECURSIVE TrimLeft(_)
TrimLeft(s) ==
    IF s # <<>> /\ IsSpace(Head(s)) THEN TrimLeft(Tail(s)) ELSE s

RECURSIVE TrimRight(_)
TrimRight(s) ==
    IF s # <<>> /\ IsSpace(s[Len(s)])
    THEN TrimRight(SubSeq(s, 1, Len(s) - 1))
    ELSE s

\* strings.TrimSpace
TrimSpace(s) == TrimRight(TrimLeft(s))

\* Go's s[lo:hi] (0-based, hi exclusive)
Slice(s, lo, hi) == SubSeq(s, lo + 1, hi)

\* strings.Index: 0-based index of the first instance of sub in s, or -1
Index(s, sub) ==
    LET n == Len(sub)
        hits == {i \in 0..(Len(s) - n) : Slice(s, i, i + n) = sub}
    IN  IF hits = {} THEN -1
        ELSE CHOOSE i \in hits : \A j \in hits : i <= j

\* the literal of three grave accents
Fence == <<Backtick, Backtick, Backtick>>

\* variant of extractCommitMessage that forgets strings.TrimSpace
extractUntrimmed(resp) ==
    LET start == Index(resp, Fence) IN
    IF start = -1 THEN <<>>
    ELSE LET end == Index(Slice(resp, start + 3, Len(resp)), Fence) IN
         IF end = -1 THEN <<>>
         ELSE Slice(resp, start + 3, start + 3 + end)

extractCommitMessage(resp) ==
    LET start == Index(resp, Fence) IN
    IF start = -1 THEN <<>>
    ELSE LET end == Index(Slice(resp, start + 3, Len(resp)), Fence) IN
         IF end = -1 THEN <<>>
         ELSE TrimSpace(Slice(resp, start + 3, start + 3 + end))

\* getUserInput: the line ReadString returned (up to and including the first
\* newline; empty at end of input), trimmed
getUserInput(line) == TrimSpace(line)

\* os.Getenv: the value, or "" when the variable is not set
Getenv(env, name) == IF name \in DOMAIN env THEN env[name] ELSE <<>>

(***************************************************************************)
(* Inputs: what the environment, the user, git, the remote assistant and   *)
(* the editor can hand to the program.                                     *)
(***************************************************************************)
ApiKeyName == "CLAUDE_API_KEY"

\* CLAUDE_API_KEY unset, set to the empty string, set to a key
Environments ==
    { <<>>,
      [n \in {ApiKeyName} |-> <<>>],
      [n \in {ApiKeyName} |-> Chars("sk-1")] }

\* lines typed at "Enter commit message: "
DraftLines == { Chars(" fix bug\n"), Chars("\n") }

\* results of exec.Command("git", "diff", ...).Output(): output and error
DiffResults ==
    { [output |-> <<>>,           failed |-> TRUE],
      [output |-> <<>>,           failed |-> FALSE],
      [output |-> Chars("+x\n"),  failed |-> FALSE] }

\* texts the assistant can reply with: a fenced candidate, a question, an
\* opening fence that is never closed, a fenced block holding only white space
ResponseTexts ==
    { Chars("Try ") \o Fence \o Chars(" Fix bug\n") \o Fence \o Chars(" ok"),
      Chars("Which module?"),
      Fence \o Chars("Fix"),
      Fence \o <<" ", VT, NBSP, "\n">> \o Fence }

\* what client.Do and the decoding of the body can yield: a transport
\* failure, a status, a body that is or is not JSON, its content blocks
HttpReplies ==
    { [neterr |-> TRUE,  status |-> 0,        json |-> FALSE, content |-> <<>>],
      [neterr |-> FALSE, status |-> 500,      json |-> TRUE,  content |-> <<>>],
      [neterr |-> FALSE, status |-> StatusOK, json |-> FALSE, content |-> <<>>],
      [neterr |-> FALSE, status |-> StatusOK, json |-> TRUE,  content |-> <<>>] }
    \cup
    { [neterr |-> FALSE, status |-> StatusOK, json |-> TRUE, content |-> <<t>>]
        : t \in ResponseTexts }
    \cup
    { [neterr |-> FALSE, status |-> StatusOK, json |-> TRUE,
       content |-> <<Chars("Which module?"), Fence \o Chars("x") \o Fence>>] }

\* lines typed at "Use this message? (y/n/e to edit): " (<<>>: end of input)
ChoiceLines ==
    { Chars("y\n"), Chars(" y \n"), Chars("n\n"), Chars("e\n"), Chars("x\n"),
      <<>> }

\* what the temporary file holds when vim exits
EditorContents(message) ==
    { message, message \o Chars("\n"), Chars("Fix parser\n"),
      <<" ", VT, "\n">>, <<>> }

\* where editInVim can fail before it compares the text
EditFailures ==
    { "error creating temp file", "error writing to temp file",
      "error running vim", "error reading edited file" }

\* lines typed at "No changes made. Use original message? (y/n): "
ConfirmLines == { Chars("y\n"), Chars("n\n"), Chars("Y\n"), <<>> }

\* lines typed at "Your response: "
InfoLines == { Chars("the parser \n"), <<>> }

(***************************************************************************)
(* The functions of main.go.                                               *)
(***************************************************************************)
\* getDiff: the arguments of the git invocation
DiffArgs(all) ==
    IF ~all THEN <<Chars("diff"), Chars("--cached")>> ELSE <<Chars("diff")>>

\* variant of CommitArgs that passes -a whatever the flag
CommitArgsAlwaysAll(all, message) ==
    <<Chars("commit"), Chars("-a"), Chars("-m"), message>>

\* main: the arguments of the commit invocation
CommitArgs(all, message) ==
    (IF all THEN <<Chars("commit"), Chars("-a")>> ELSE <<Chars("commit")>>)
        \o <<Chars("-m"), message>>

\* main: the first prompt, fmt.Sprintf of the draft and the diff
BuildPrompt(original, d) ==
    Chars("Help me write a better git commit message. Here's my original message:\n\"")
        \o original
        \o Chars("\"\n\nHere are the changes:\n")
        \o d

\* variant of AppendContext that starts the prompt over
ReplaceByContext(p, moreInfo) ==
    Chars("Additional context: ") \o moreInfo

\* main: prompt += "\n\nAdditional context: " + moreInfo
AppendContext(p, moreInfo) ==
    p \o Chars("\n\nAdditional context: ") \o moreInfo

\* main: the prompt of getUserInput that relays a question
QuestionPrompt(resp) ==
    Chars("\nClaude asks: ") \o resp \o Chars("\nYour response: ")

ChoicePrompt == Chars("\nUse this message? (y/n/e to edit): ")
ConfirmPrompt == Chars("No changes made. Use original message? (y/n): ")
DraftPrompt == Chars("Enter commit message: ")

\* variant of askClaudeResult that takes an empty content list for an empty
\* text
askClaudeResultNoEmptyCheck(reply) ==
    IF reply.neterr
    THEN [text |-> <<>>, err |-> "error making request"]
    ELSE IF reply.status # StatusOK
    THEN [text |-> <<>>, err |-> "API error"]
    ELSE IF ~reply.json
    THEN [text |-> <<>>, err |-> "error decoding response"]
    ELSE IF Len(reply.content) = 0
    THEN [text |-> <<>>, err |-> Nil]
    ELSE [text |-> reply.content[1], err |-> Nil]

\* askClaude after client.Do: the text and the error it returns
askClaudeResult(reply) ==
    IF reply.neterr
    THEN [text |-> <<>>, err |-> "error making request"]
    ELSE IF reply.status # StatusOK
    THEN [text |-> <<>>, err |-> "API error"]
    ELSE IF ~reply.json
    THEN [text |-> <<>>, err |-> "error decoding response"]
    ELSE IF Len(reply.content) = 0
    THEN [text |-> <<>>, err |-> "empty response from API"]
    ELSE [text |-> reply.content[1], err |-> Nil]

(***************************************************************************)
(* main, one action per step between two blocking calls.                   *)
(***************************************************************************)
Init ==
    /\ pc = "flags"
    /\ help \in BOOLEAN
    /\ allChanges \in BOOLEAN
    /\ nargs \in {0, 1}
    /\ environ \in Environments
    /\ apiKey = <<>>
    /\ originalMessage = <<>>
    /\ diff = <<>>
    /\ diffErr = Nil
    /\ prompt = <<>>
    /\ httpResp = NoReply
    /\ response = <<>>
    /\ askErr = Nil
    /\ commitMsg = <<>>
    /\ answer = <<>>
    /\ editedStr = <<>>
    /\ confirm = <<>>
    /\ edited = <<>>
    /\ editErr = Nil
    /\ finalMessage = <<>>
    /\ gitCalls = <<>>
    /\ requests = <<>>
    /\ shown = <<>>
    /\ nPrompts = 0

\* flag.Parse; -help or a positional argument prints the usage and returns
ParseFlags ==
    /\ pc = "flags"
    /\ pc' = IF help \/ nargs > 0 THEN "done" ELSE "env"
    /\ UNCHANGED <<httpResp,
                   help, allChanges, nargs, environ, apiKey, originalMessage,
                   diff, diffErr, prompt, response, askErr, commitMsg, answer,
                   editedStr, confirm, edited, editErr, finalMessage, gitCalls,
                   requests, shown, nPrompts>>

\* variant of CheckApiKey that reads the key and goes on without checking it
CheckApiKeyUnchecked ==
    /\ pc = "env"
    /\ apiKey' = Getenv(environ, ApiKeyName)
    /\ pc' = "draft"
    /\ UNCHANGED <<httpResp,
                   help, allChanges, nargs, environ, originalMessage, diff,
                   diffErr, prompt, response, askErr, commitMsg, answer,
                   editedStr, confirm, edited, editErr, finalMessage, gitCalls,
                   requests, shown, nPrompts>>

\* apiKey := os.Getenv("CLAUDE_API_KEY"); empty: print and return
CheckApiKey ==
    /\ pc = "env"
    /\ apiKey' = Getenv(environ, ApiKeyName)
    /\ pc' = IF apiKey' = <<>> THEN "done" ELSE "draft"
    /\ UNCHANGED <<httpResp,
                   help, allChanges, nargs, environ, originalMessage, diff,
                   diffErr, prompt, response, askErr, commitMsg, answer,
                   editedStr, confirm, edited, editErr, finalMessage, gitCalls,
                   requests, shown, nPrompts>>

\* originalMessage := getUserInput("Enter commit message: ")
ReadDraft ==
    /\ pc = "draft"
    /\ \E line \in DraftLines : originalMessage' = getUserInput(line)
    /\ shown' = DraftPrompt
    /\ nPrompts' = nPrompts + 1
    /\ pc' = "diff"
    /\ UNCHANGED <<httpResp,
                   help, allChanges, nargs, environ, apiKey, diff, diffErr,
                   prompt, response, askErr, commitMsg, answer, editedStr,
                   confirm, edited, editErr, finalMessage, gitCalls, requests>>

\* diff, err := getDiff(*allChanges)
GetDiff ==
    /\ pc = "diff"
    /\ gitCalls' = Append(gitCalls, DiffArgs(allChanges))
    /\ \E r \in DiffResults :
          /\ diff' = IF r.failed THEN <<>> ELSE r.output
          /\ diffErr' = IF r.failed THEN "error getting diff" ELSE Nil
    /\ pc' = "diffret"
    /\ UNCHANGED <<httpResp,
                   help, allChanges, nargs, environ, apiKey, originalMessage,
                   prompt, response, askErr, commitMsg, answer, editedStr,
                   confirm, edited, editErr, finalMessage, requests, shown,
                   nPrompts>>

\* variant of CheckDiff that checks the error only
CheckDiffErrorOnly ==
    /\ pc = "diffret"
    /\ IF diffErr # Nil
       THEN pc' = "done" /\ prompt' = prompt
       ELSE pc' = "ask" /\ prompt' = BuildPrompt(originalMessage, diff)
    /\ UNCHANGED <<httpResp,
                   help, allChanges, nargs, environ, apiKey, originalMessage,
                   diff, diffErr, response, askErr, commitMsg, answer,
                   editedStr, confirm, edited, editErr, finalMessage, gitCalls,
                   requests, shown, nPrompts>>

\* the two checks after getDiff, then the first prompt
CheckDiff ==
    /\ pc = "diffret"
    /\ IF diffErr # Nil \/ diff = <<>>
       THEN pc' = "done" /\ prompt' = prompt
       ELSE pc' = "ask" /\ prompt' = BuildPrompt(originalMessage, diff)
    /\ UNCHANGED <<httpResp,
                   help, allChanges, nargs, environ, apiKey, originalMessage,
                   diff, diffErr, response, askErr, commitMsg, answer,
                   editedStr, confirm, edited, editErr, finalMessage, gitCalls,
                   requests, shown, nPrompts>>

\* response, err := askClaude(prompt, apiKey)
AskClaude ==
    /\ pc = "ask"
    /\ Len(requests) < MaxRequests
    /\ requests' = Append(requests, [prompt |-> prompt, apiKey |-> apiKey])
    /\ httpResp' \in HttpReplies
    /\ response' = askClaudeResult(httpResp').text
    /\ askErr' = askClaudeResult(httpResp').err
    /\ pc' = "askret"
    /\ UNCHANGED <<help, allChanges, nargs, environ, apiKey, originalMessage,
                   diff, diffErr, prompt, commitMsg, answer, editedStr, confirm,
                   edited, editErr, finalMessage, gitCalls, shown, nPrompts>>

\* if err != nil: print and return; else commitMsg := extractCommitMessage
Interpret ==
    /\ pc = "askret"
    /\ IF askErr # Nil
       THEN pc' = "done" /\ commitMsg' = commitMsg
       ELSE /\ commitMsg' = extractCommitMessage(response)
            /\ pc' = IF commitMsg' # <<>> THEN "choice" ELSE "question"
    /\ UNCHANGED <<httpResp,
                   help, allChanges, nargs, environ, apiKey, originalMessage,
                   diff, diffErr, prompt, response, askErr, answer, editedStr,
                   confirm, edited, editErr, finalMessage, gitCalls, requests,
                   shown, nPrompts>>

\* answer := getUserInput("\nUse this message? (y/n/e to edit): ")
ReadChoice ==
    /\ pc = "choice"
    /\ \E line \in ChoiceLines : answer' = getUserInput(line)
    /\ shown' = ChoicePrompt
    /\ nPrompts' = nPrompts + 1
    /\ pc' = "switch"
    /\ UNCHANGED <<httpResp,
                   help, allChanges, nargs, environ, apiKey, originalMessage,
                   diff, diffErr, prompt, response, askErr, commitMsg,
                   editedStr, confirm, edited, editErr, finalMessage, gitCalls,
                   requests>>

\* case "y": finalMessage = commitMsg
Accept ==
    /\ pc = "switch"
    /\ answer = Chars("y")
    /\ finalMessage' = commitMsg
    /\ pc' = "commit"
    /\ UNCHANGED <<httpResp,
                   help, allChanges, nargs, environ, apiKey, originalMessage,
                   diff, diffErr, prompt, response, askErr, commitMsg, answer,
                   editedStr, confirm, edited, editErr, gitCalls, requests,
                   shown, nPrompts>>

\* variant of Reject that tells the assistant about the rejection
RejectWithHint ==
    /\ pc = "switch"
    /\ answer = Chars("n")
    /\ pc' = "ask"
    /\ prompt' = prompt \o Chars("\n\nAdditional context: rejected")
    /\ UNCHANGED <<httpResp,
                   help, allChanges, nargs, environ, apiKey, originalMessage,
                   diff, diffErr, response, askErr, commitMsg, answer,
                   editedStr, confirm, edited, editErr, finalMessage, gitCalls,
                   requests, shown, nPrompts>>

\* case "n": continue; the next iteration starts at askClaude
Reject ==
    /\ pc = "switch"
    /\ answer = Chars("n")
    /\ pc' = "ask"
    /\ UNCHANGED <<httpResp,
                   help, allChanges, nargs, environ, apiKey, originalMessage,
                   diff, diffErr, prompt, response, askErr, commitMsg, answer,
                   editedStr, confirm, edited, editErr, finalMessage, gitCalls,
                   requests, shown, nPrompts>>

\* default: print "Invalid option. Please enter y, n, or e." and continue,
\* which is the continue of the enclosing for loop
InvalidOption ==
    /\ pc = "switch"
    /\ answer \notin {Chars("y"), Chars("e"), Chars("n")}
    /\ pc' = "ask"
    /\ UNCHANGED <<httpResp,
                   help, allChanges, nargs, environ, apiKey, originalMessage,
                   diff, diffErr, prompt, response, askErr, commitMsg, answer,
                   editedStr, confirm, edited, editErr, finalMessage, gitCalls,
                   requests, shown, nPrompts>>

\* case "e": editInVim(commitMsg) up to the comparison of the text read back
EditInVim ==
    /\ pc = "switch"
    /\ answer = Chars("e")
    /\ \/ \E e \in EditFailures :
             /\ editErr' = e
             /\ editedStr' = editedStr
             /\ edited' = <<>>
             /\ pc' = "editret"
       \/ \E content \in EditorContents(commitMsg) :
             /\ editedStr' = content
             /\ editErr' = editErr
             /\ IF content = commitMsg
                THEN pc' = "confirm" /\ edited' = edited
                ELSE pc' = "editret" /\ edited' = content
    /\ UNCHANGED <<httpResp,
                   help, allChanges, nargs, environ, apiKey, originalMessage,
                   diff, diffErr, prompt, response, askErr, commitMsg, answer,
                   confirm, finalMessage, gitCalls, requests, shown, nPrompts>>

\* variant of ConfirmEdit that cancels on "n" only
ConfirmEditCancelOnN ==
    /\ pc = "confirm"
    /\ \E line \in ConfirmLines : confirm' = getUserInput(line)
    /\ shown' = ConfirmPrompt
    /\ nPrompts' = nPrompts + 1
    /\ IF confirm' = Chars("n")
       THEN edited' = <<>> /\ editErr' = "edit cancelled"
       ELSE edited' = editedStr /\ editErr' = Nil
    /\ pc' = "editret"
    /\ UNCHANGED <<httpResp,
                   help, allChanges, nargs, environ, apiKey, originalMessage,
                   diff, diffErr, prompt, response, askErr, commitMsg, answer,
                   editedStr, finalMessage, gitCalls, requests>>

\* editInVim: confirm := getUserInput("No changes made. ..."); anything but
\* "y" returns the error "edit cancelled"
ConfirmEdit ==
    /\ pc = "confirm"
    /\ \E line \in ConfirmLines : confirm' = getUserInput(line)
    /\ shown' = ConfirmPrompt
    /\ nPrompts' = nPrompts + 1
    /\ IF confirm' # Chars("y")
       THEN edited' = <<>> /\ editErr' = "edit cancelled"
       ELSE edited' = editedStr /\ editErr' = Nil
    /\ pc' = "editret"
    /\ UNCHANGED <<httpResp,
                   help, allChanges, nargs, environ, apiKey, originalMessage,
                   diff, diffErr, prompt, response, askErr, commitMsg, answer,
                   editedStr, finalMessage, gitCalls, requests>>

\* back in main: an error returns; else finalMessage = TrimSpace(edited)
EditReturn ==
    /\ pc = "editret"
    /\ IF editErr # Nil
       THEN pc' = "done" /\ finalMessage' = finalMessage
       ELSE pc' = "commit" /\ finalMessage' = TrimSpace(edited)
    /\ UNCHANGED <<httpResp,
                   help, allChanges, nargs, environ, apiKey, originalMessage,
                   diff, diffErr, prompt, response, askErr, commitMsg, answer,
                   editedStr, confirm, edited, editErr, gitCalls, requests,
                   shown, nPrompts>>

\* exec.Command("git", "commit", ["-a",] "-m", finalMessage).Run(); main
\* returns whether or not git reports an error
GitCommit ==
    /\ pc = "commit"
    /\ gitCalls' = Append(gitCalls, CommitArgs(allChanges, finalMessage))
    /\ pc' = "done"
    /\ UNCHANGED <<httpResp,
                   help, allChanges, nargs, environ, apiKey, originalMessage,
                   diff, diffErr, prompt, response, askErr, commitMsg, answer,
                   editedStr, confirm, edited, editErr, finalMessage, requests,
                   shown, nPrompts>>

\* no commit message found: relay the response as a question and append the
\* answer to the prompt; the loop body ends and the next iteration starts
\* at askClaude
AskUser ==
    /\ pc = "question"
    /\ \E line \in InfoLines :
          prompt' = AppendContext(prompt, getUserInput(line))
    /\ shown' = QuestionPrompt(response)
    /\ nPrompts' = nPrompts + 1
    /\ pc' = "ask"
    /\ UNCHANGED <<httpResp,
                   help, allChanges, nargs, environ, apiKey, originalMessage,
                   diff, diffErr, response, askErr, commitMsg, answer,
                   editedStr, confirm, edited, editErr, finalMessage, gitCalls,
                   requests>>

Next ==
    \/ ParseFlags
    \/ CheckApiKey
    \/ ReadDraft
    \/ GetDiff
    \/ CheckDiff
    \/ AskClaude
    \/ Interpret
    \/ ReadChoice
    \/ Accept
    \/ Reject
    \/ InvalidOption
    \/ EditInVim
    \/ ConfirmEdit
    \/ EditReturn
    \/ GitCommit
    \/ AskUser

Spec == Init /\ [][Next]_vars

(***************************************************************************)
(* extractCommitMessage on its own: every text over a small alphabet, up   *)
(* to MaxLen characters, is handed to the function once.                   *)
(***************************************************************************)
\* three characters at a time: the fence character, a letter and one kind
\* of white space
Alphabets ==
    { {Backtick, "a", " "}, {Backtick, "a", VT}, {Backtick, "a", NBSP} }

Texts == UNION { [1..n -> A] : n \in 0..MaxLen, A \in Alphabets }

InitExtract ==
    /\ pc = "extract"
    /\ response \in Texts
    /\ help = FALSE
    /\ allChanges = FALSE
    /\ nargs = 0
    /\ environ = <<>>
    /\ apiKey = <<>>
    /\ originalMessage = <<>>
    /\ diff = <<>>
    /\ diffErr = Nil
    /\ prompt = <<>>
    /\ httpResp = NoReply
    /\ askErr = Nil
    /\ commitMsg = <<>>
    /\ answer = <<>>
    /\ editedStr = <<>>
    /\ confirm = <<>>
    /\ edited = <<>>
    /\ editErr = Nil
    /\ finalMessage = <<>>
    /\ gitCalls = <<>>
    /\ requests = <<>>
    /\ shown = <<>>
    /\ nPrompts = 0

\* commitMsg := extractCommitMessage(response)
Extract ==
    /\ pc = "extract"
    /\ commitMsg' = extractCommitMessage(response)
    /\ pc' = "extracted"
    /\ UNCHANGED <<httpResp,
                   help, allChanges, nargs, environ, apiKey, originalMessage,
                   diff, diffErr, prompt, response, askErr, answer, editedStr,
                   confirm, edited, editErr, finalMessage, gitCalls, requests,
                   shown, nPrompts>>

NextExtract == Extract

SpecExtract == InitExtract /\ [][NextExtract]_vars

(***************************************************************************)
(* Vocabulary of the properties.                                           *)
(***************************************************************************)
\* 0-based positions at which a fence starts in s
FencePositions(s) == {i \in 0..(Len(s) - 3) : Slice(s, i, i + 3) = Fence}

Least(S) == CHOOSE i \in S : \A j \in S : i <= j

\* t is u without its leading and trailing white space
IsTrimOf(t, u) ==
    \E i \in 0..Len(u) : \E j \in i..Len(u) :
        /\ t = Slice(u, i, j)
        /\ \A k \in 1..i : IsSpace(u[k])
        /\ \A k \in (j + 1)..Len(u) : IsSpace(u[k])
        /\ i < j => (~IsSpace(u[i + 1]) /\ ~IsSpace(u[j]))

\* C5: extractCommitMessage returns the trimmed text between the first fence
\* and the next fence after it, and the empty string when the text has no
\* fence or no fence after the first one.
C5_ExtractBetweenFences ==
    pc = "extracted" =>
        LET F == FencePositions(response) IN
        IF F = {} THEN commitMsg = <<>>
        ELSE LET first == Least(F)
                 closers == {j \in F : j >= first + 3}
             IN  IF closers = {} THEN commitMsg = <<>>
                 ELSE IsTrimOf(commitMsg,
                               Slice(response, first + 3, Least(closers)))

\* a text with white space (here \v) inside its fences has been reduced to
\* the interior
C5_Witness ==
    /\ pc = "extracted"
    /\ response = Fence \o <<VT, "a", VT>> \o Fence
    /\ commitMsg = <<"a">>

(***************************************************************************)
(* Properties of a run of main.                                            *)
(***************************************************************************)
IsCommit(call) == call[1] = Chars("commit")

\* the commit invocations made so far
Commits == SelectSeq(gitCalls, IsCommit)

\* the API credential main reads is empty
NoCredential ==
    \/ ApiKeyName \notin DOMAIN environ
    \/ environ[ApiKeyName] = <<>>

\* the argument list the commit must carry for message m
ExpectedCommit(m) ==
    IF allChanges
    THEN <<Chars("commit"), Chars("-a"), Chars("-m"), m>>
    ELSE <<Chars("commit"), Chars("-m"), m>>

\* C1: when the user accepts a candidate with "y", the run ends with exactly
\* one commit invocation; its message is the candidate, the trimmed text
\* extracted from the latest reply, and it carries "-a" iff the run was
\* started with -a.
C1_AcceptCommitsCandidate ==
    answer = Chars("y") =>
        /\ pc \in {"switch", "commit", "done"}
        /\ commitMsg # <<>>
        /\ commitMsg = extractCommitMessage(response)
        /\ response = httpResp.content[1]
        /\ pc = "commit" => (finalMessage = commitMsg /\ Commits = <<>>)
        /\ pc = "done" => Commits = <<ExpectedCommit(commitMsg)>>

C1_Witness ==
    /\ pc = "done"
    /\ answer = Chars("y")
    /\ allChanges
    /\ Commits = <<<<Chars("commit"), Chars("-a"), Chars("-m"),
                     Chars("Fix bug")>>>>

\* C2: with CLAUDE_API_KEY unset or empty the run ends at the credential
\* check: git is never invoked and no request is ever issued.
C2_NoCredentialHalts ==
    NoCredential =>
        /\ gitCalls = <<>>
        /\ requests = <<>>
        /\ pc \in {"flags", "env", "done"}

C2_Witness ==
    /\ pc = "done"
    /\ ~help
    /\ nargs = 0
    /\ ApiKeyName \in DOMAIN environ
    /\ environ[ApiKeyName] = <<>>

\* C3: when getDiff returns empty text without an error, the run ends after
\* that one git invocation: no request is issued and nothing is committed,
\* with and without -a.
C3_EmptyDiffHalts ==
    (gitCalls # <<>> /\ diffErr = Nil /\ diff = <<>>) =>
        /\ requests = <<>>
        /\ Len(gitCalls) = 1
        /\ Commits = <<>>
        /\ pc \in {"diffret", "done"}

C3_Witness ==
    /\ pc = "done"
    /\ allChanges
    /\ gitCalls = <<<<Chars("diff")>>>>
    /\ diffErr = Nil
    /\ diff = <<>>

\* the edit path read back exactly the candidate
EditedUnchanged ==
    /\ answer = Chars("e")
    /\ pc \in {"confirm", "editret", "commit", "done"}
    /\ editErr \notin EditFailures
    /\ editedStr = commitMsg

\* C4: when the text read back from the editor equals the candidate, the
\* user is asked to confirm; an answer other than "y" cancels the run with
\* no commit, and "y" commits the unmodified candidate.
C4_UnchangedEditNeedsConfirmation ==
    EditedUnchanged =>
        /\ pc = "confirm" => Commits = <<>>
        /\ pc # "confirm" =>
              /\ shown = ConfirmPrompt
              /\ confirm # Chars("y") =>
                    /\ pc \in {"editret", "done"}
                    /\ editErr = "edit cancelled"
                    /\ Commits = <<>>
              /\ confirm = Chars("y") =>
                    /\ editErr = Nil
                    /\ pc = "commit" =>
                          (finalMessage = commitMsg /\ Commits = <<>>)
                    /\ pc = "done" =>
                          Commits = <<ExpectedCommit(commitMsg)>>

C4_Witness ==
    /\ EditedUnchanged
    /\ pc = "done"
    /\ confirm = Chars("Y")
    /\ Commits = <<>>

\* C6: a reply that yields no candidate is relayed as a question; the
\* trimmed answer is appended to the prompt after "Additional context: ",
\* the earlier prompt staying as a proper prefix; the next step is a request
\* carrying the extended prompt, and nothing is committed on the way.
C6_QuestionExtendsPrompt ==
    [][ /\ (pc = "askret" /\ askErr = Nil
              /\ extractCommitMessage(response) = <<>>)
           => (pc' = "question" /\ UNCHANGED <<prompt, requests, gitCalls>>)
        /\ pc = "question" =>
              /\ response = httpResp.content[1]
              /\ shown' = Chars("\nClaude asks: ") \o response
                             \o Chars("\nYour response: ")
              /\ \E line \in InfoLines :
                    prompt' = prompt \o Chars("\n\nAdditional context: ")
                                     \o TrimSpace(line)
              /\ Len(prompt') > Len(prompt)
              /\ SubSeq(prompt', 1, Len(prompt)) = prompt
              /\ pc' = "ask"
              /\ UNCHANGED <<requests, gitCalls>>
        /\ (pc = "ask" /\ shown = QuestionPrompt(response)) =>
              /\ requests' =
                    Append(requests, [prompt |-> prompt, apiKey |-> apiKey])
              /\ pc' = "askret"
              /\ UNCHANGED gitCalls
      ]_vars

C6_Witness ==
    /\ pc = "askret"
    /\ Len(requests) = 2
    /\ shown = Chars("\nClaude asks: Which module?\nYour response: ")
    /\ requests[2].prompt =
          requests[1].prompt \o Chars("\n\nAdditional context: the parser")
    /\ gitCalls = <<<<Chars("diff"), Chars("--cached")>>>>

\* C7: on "n" the prompt is left as it is and the next step is a request
\* that carries the same prompt as the request before it; nothing is
\* committed.
C7_RejectRepeatsRequest ==
    [][ /\ (pc = "switch" /\ answer = Chars("n")) =>
              /\ pc' = "ask"
              /\ prompt' = prompt
              /\ prompt = requests[Len(requests)].prompt
              /\ UNCHANGED <<requests, gitCalls>>
        /\ (pc = "ask" /\ shown = ChoicePrompt /\ answer = Chars("n")) =>
              /\ Len(requests') = Len(requests) + 1
              /\ requests'[Len(requests')] = requests[Len(requests)]
              /\ SubSeq(requests', 1, Len(requests)) = requests
              /\ UNCHANGED gitCalls
      ]_vars

C7_Witness ==
    /\ pc = "askret"
    /\ answer = Chars("n")
    /\ Len(requests) = 2
    /\ requests[2] = requests[1]
    /\ Commits = <<>>

\* C8: an answer to the choice prompt other than "y", "n", "e" leads back to
\* the choice prompt with the candidate, the prompt and the requests as they
\* were; it does not lead to a new request.
C8_InvalidInputReprompts ==
    [][ (pc = "switch" /\ answer \notin {Chars("y"), Chars("n"), Chars("e")})
        => /\ pc' = "choice"
           /\ pc' # "ask"
           /\ UNCHANGED <<commitMsg, prompt, requests>>
      ]_vars

\* the request failed: transport, status, decoding or an empty content list
RequestFailed ==
    /\ requests # <<>>
    /\ \/ httpResp.neterr
       \/ httpResp.status # StatusOK
       \/ ~httpResp.json
       \/ httpResp.content = <<>>

\* C9: once a request has failed, the run ends: no further request, no
\* further prompt to the user, no commit.
C9_RequestFailureAborts ==
    [][ RequestFailed =>
           /\ pc = "askret"
           /\ pc' = "done"
           /\ Commits = <<>>
           /\ UNCHANGED <<requests, gitCalls, nPrompts, shown>>
      ]_vars

C9_Witness ==
    /\ pc = "done"
    /\ Len(requests) = 2
    /\ httpResp.status = 500
    /\ askErr = "API error"
    /\ Commits = <<>>

\* C10: every commit invocation carries a non-empty message.
C10_CommitMessageNonEmpty ==
    \A i \in 1..Len(Commits) : Commits[i][Len(Commits[i])] # <<>>

====
